---- MODULE Spec2Model ----
(***************************************************************************)
(* ReadOnly (src/src/read_only.rs): the registry of pending read-index     *)
(* requests of a raft leader.  The registry is a map from request context  *)
(* to ReadIndexStatus, a queue of contexts in registration order, and the  *)
(* counter waiting_for_ready.  Every public method is one action.          *)
(***************************************************************************)
EXTENDS Integers, Sequences, FiniteSets, TLC

\* ------------------------------------------------------------------ bounds
\* Request contexts are the one-byte vectors <<1>> .. <<MaxToken>>.
MaxToken == 2
\* Commit indices range over 0 .. MaxIndex.
MaxIndex == 1
\* Node identities range over 1 .. MaxNode.
MaxNode == 2

Tokens == {<<b>> : b \in 1..MaxToken}
Indices == 0..MaxIndex
Nodes == 1..MaxNode

\* ---------------------------------------------------------------- messages
\* eraftpb::Message, the fields the registry reads or stores.
new_message(from, to, context, entries) ==
    [from |-> from, to |-> to, context |-> context, entries |-> entries]

\* Message::default()
default_message == new_message(0, 0, <<>>, <<>>)

\* A MsgReadIndex request: the context travels in entries[0].data.
RequestMsgs ==
    {new_message(f, 0, <<>>, <<[data |-> t]>>) : f \in Nodes, t \in Tokens}
        \cup {default_message}

\* A heartbeat response: the context travels in m.context.
AckMsgs ==
    {new_message(f, t, c, <<>>) : f \in Nodes, t \in Nodes, c \in Tokens}

\* The messages passed to advance, which reads m.context only.
AdvanceMsgs == {new_message(0, 0, c, <<>>) : c \in Tokens}

\* ------------------------------------------------------------------- state
VARIABLES
    option,              \* ReadOnly::option
    pending_read_index,  \* ReadOnly::pending_read_index: context -> status
    read_index_queue,    \* ReadOnly::read_index_queue
    waiting_for_ready,   \* ReadOnly::waiting_for_ready
    panic,               \* "none", or the panic that aborted the last call
    call,                \* the last call: method, request context, ready
    rss,                 \* the Vec<ReadIndexStatus> the last call returned
    acks_ret,            \* the HashSet<u64> the last call returned
    registered,          \* caller's view: outstanding registrations, in order
    commit,              \* SpecMono: the commit index the caller supplied last
    ack_log,             \* SpecAck: the message of the last recv_ack calls
    released,            \* SpecRelease: context -> was it returned with acks
    dropm,               \* Network::dropm: <<from, to>> -> percentage
    delaym,              \* Network::delaym: <<from, to>> -> <<percentage, duration>>
    ignorem,             \* Network::ignorem: message type -> bool
    filtered,            \* the Vec<Message> the last filter call returned
    net_call,            \* the last Network call: method, number of messages
    cut_off,             \* test's view: connections an isolate call cut, not
                         \* overridden by a later drop nor cleared by recover
    lhs,                 \* SpecErr: self of the comparison
    rhs,                 \* SpecErr: other of the comparison
    eq_ret               \* SpecErr: {} before the call, then {the bool eq returned}

read_only_vars ==
    <<option, pending_read_index, read_index_queue, waiting_for_ready,
      call, rss, acks_ret, registered, commit, ack_log, released>>

network_vars == <<dropm, delaym, ignorem, filtered, net_call, cut_off>>

error_vars == <<lhs, rhs, eq_ret>>

vars == <<option, pending_read_index, read_index_queue, waiting_for_ready,
          panic, call, rss, acks_ret, registered, commit, ack_log, released,
          dropm, delaym, ignorem, filtered, net_call, cut_off,
          lhs, rhs, eq_ret>>

\* ----------------------------------------------------------------- helpers
\* HashMap::insert / HashMap::remove / HashMap::contains_key
\* map_remove that forgets to remove.
map_remove_kept(map, k) == map

map_remove(map, k) == [x \in DOMAIN map \ {k} |-> map[x]]
contains_key(map, k) == k \in DOMAIN map

\* map_insert that forgets to insert.
map_insert_skipped(map, k, v) == map

map_insert(map, k, v) == [x \in DOMAIN map \cup {k} |-> IF x = k THEN v ELSE map[x]]

\* push_back that puts the element at the front.
push_back_at_front(queue, x) == <<x>> \o queue

\* VecDeque::push_back
push_back(queue, x) == Append(queue, x)

\* The duplicate test of add_request that never finds the key.
already_pending_never(map, key) == FALSE

\* if self.pending_read_index.contains_key(key) { return; }
already_pending(map, key) == contains_key(map, key)

\* The context a status was registered under: req.entries[0].data.
ctx_of(status) == status.req.entries[1].data

\* position that falls back to the front when there is no match.
position_or_front(queue, ctx) ==
    LET hits == {i \in 0..(Len(queue) - 1) : queue[i + 1] = ctx}
    IN IF hits = {} THEN (IF queue = <<>> THEN {} ELSE {0})
       ELSE {CHOOSE i \in hits : \A j \in hits : i <= j}

\* Iterator::position: Some(i) is {i} (0-based), None is {}.
position(queue, ctx) ==
    LET hits == {i \in 0..(Len(queue) - 1) : queue[i + 1] = ctx}
    IN IF hits = {} THEN {} ELSE {CHOOSE i \in hits : \A j \in hits : i <= j}

\* The queue elements the closure of position visits: up to and including
\* the match, or all of them when there is none.
scanned(queue, ctx) ==
    LET p == position(queue, ctx)
    IN IF p = {} THEN 1..Len(queue)
       ELSE 1..((CHOOSE i \in p : TRUE) + 1)

\* new_status with the index left at its default.
new_status_default_index(index, m) == [req |-> m, index |-> 0, acks |-> {}]

\* ReadIndexStatus { req: m, index, acks: HashSet::default() }
new_status(index, m) == [req |-> m, index |-> index, acks |-> {}]

\* acks_insert that replaces the set by the new acker.
acks_insert_replace(acks, from) == {from}

\* rs.acks.insert(m.from)
acks_insert(acks, from) == acks \cup {from}

\* stored_acks that withdraws the acker when it is already recorded.
stored_acks_toggle(acks, m) ==
    IF m.from \in acks THEN acks \ {m.from} ELSE acks_insert(acks, m.from)

\* stored_acks that also stores the responder.
stored_acks_with_self(acks, m) == acks_insert(acks, m.from) \cup {m.to}

\* What recv_ack leaves in rs.acks: rs.acks.insert(m.from)
stored_acks(acks, m) == acks_insert(acks, m.from)

\* recv_ack_none that counts the responder.
recv_ack_none_with_self(m) == {m.to}

\* None => Default::default()
recv_ack_none(m) == {}

\* with_acks that also clears the captured index.
with_acks_reset_index(status, acks) ==
    [status EXCEPT !.acks = acks, !.index = 0]

\* The status get_mut hands to recv_ack, after rs.acks.insert: only the
\* acks field is written.
with_acks(status, acks) == [status EXCEPT !.acks = acks]

\* rs.acks.union(&set_with_self), set_with_self = {m.to}
set_with_self(acks, to) == acks \cup {to}

\* mark_waiting with max(waiting, i).
mark_waiting_position(waiting, i) == IF waiting >= i THEN waiting ELSE i

\* std::cmp::max(self.waiting_for_ready, i + 1)
mark_waiting(waiting, i) == IF waiting >= i + 1 THEN waiting ELSE i + 1

\* status.index = committed
stamp(status, committed) == [status EXCEPT !.index = committed]

\* pop_front that leaves the element in the queue.
pop_front_peek(queue) == queue

\* What VecDeque::pop_front leaves in the queue.
pop_front(queue) == Tail(queue)

\* for _ in 0..=i { pop_front().unwrap(); remove(&rs).unwrap(); push }
\* st = [queue, map, rss, panic]; n iterations remain.
RECURSIVE advance_loop(_, _)
advance_loop(n, st) ==
    IF n = 0 \/ st.panic # "none" THEN st
    ELSE IF st.queue = <<>> THEN [st EXCEPT !.panic = "unwrap_none"]
    ELSE LET rs == Head(st.queue)
         IN IF ~contains_key(st.map, rs)
            THEN [st EXCEPT !.queue = pop_front(st.queue), !.panic = "unwrap_none"]
            ELSE advance_loop(n - 1,
                    [queue |-> pop_front(st.queue),
                     map |-> map_remove(st.map, rs),
                     rss |-> Append(st.rss, st.map[rs]),
                     panic |-> "none"])

\* drain_count for the exclusive range 0..i.
drain_count_exclusive(i) == i

\* The number of iterations of `for _ in 0..=i`.
drain_count(i) == i + 1

\* VecDeque::split_off(at): the elements [at, len) it returns.
split_off(queue, at) == SubSeq(queue, at + 1, Len(queue))

\* drained_part that iterates what split_off returned.
drained_part_remained(queue, at) == SubSeq(queue, at + 1, Len(queue))

\* The elements [0, at) split_off leaves in the queue, which
\* mem::replace(&mut self.read_index_queue, remained) hands to the loop.
drained_part(queue, at) == SubSeq(queue, 1, at)

\* for rs in mem::replace(&mut queue, remained) { remove(&rs).unwrap(); ... }
\* st = [map, rss, panic]; drained is what is left of the split-off prefix.
RECURSIVE commit_loop(_, _, _)
commit_loop(drained, committed, st) ==
    IF drained = <<>> \/ st.panic # "none" THEN st
    ELSE LET rs == Head(drained)
         IN IF ~contains_key(st.map, rs)
            THEN [st EXCEPT !.panic = "unwrap_none"]
            ELSE commit_loop(Tail(drained), committed,
                    [map |-> map_remove(st.map, rs),
                     rss |-> Append(st.rss, stamp(st.map[rs], committed)),
                     panic |-> "none"])

\* ------------------------------------------------- the caller's bookkeeping
\* One outstanding registration as the caller knows it: the context, the
\* index and message passed to add_request, the ackers reported since, and
\* whether an advance(_, false) call has covered it.
registration(index, m) ==
    [ctx |-> m.entries[1].data, index |-> index, req |-> m,
     acked |-> {}, gated |-> FALSE]

outstanding(reg) == {reg[k].ctx : k \in DOMAIN reg}

reg_of(reg, ctx) == reg[CHOOSE k \in DOMAIN reg : reg[k].ctx = ctx]

RECURSIVE reg_without(_, _)
reg_without(reg, ctxs) ==
    IF reg = <<>> THEN <<>>
    ELSE IF Head(reg).ctx \in ctxs THEN reg_without(Tail(reg), ctxs)
    ELSE <<Head(reg)>> \o reg_without(Tail(reg), ctxs)

returned_ctxs(list) == {ctx_of(list[k]) : k \in DOMAIN list}

reg_gate(reg, ctxs) ==
    [k \in DOMAIN reg |->
        IF reg[k].ctx \in ctxs THEN [reg[k] EXCEPT !.gated = TRUE] ELSE reg[k]]

reg_ack(reg, ctx, from) ==
    [k \in DOMAIN reg |->
        IF reg[k].ctx = ctx THEN [reg[k] EXCEPT !.acked = @ \cup {from}] ELSE reg[k]]

new_call(op, ctx, ready) == [op |-> op, ctx |-> ctx, ready |-> ready]

\* The caller's record of the entries handed to it: each returned context
\* with whether the entry returned last for it carried any ack.
release_logged(log, list) ==
    [t \in DOMAIN log \cup returned_ctxs(list) |->
        IF t \in returned_ctxs(list)
        THEN (CHOOSE st \in {list[k] : k \in DOMAIN list} :
                    ctx_of(st) = t).acks # {}
        ELSE log[t]]

\* The caller's record of the acknowledgments it passed in a row: the
\* message, and whether it was passed once or at least twice.
no_ack == [m |-> default_message, n |-> 0]
ack_logged(log, m) ==
    [m |-> m, n |-> IF log.m = m /\ log.n >= 1 THEN 2 ELSE 1]

new_net_call(op, n) == [op |-> op, n |-> n]

\* ------------------------------------------------------------------- Init
\* No comparison of errors is under way.
no_error == [variant |-> "none"]

\* ReadOnly::new(option), and the network of Network::new.
Constructed ==
    /\ option \in {"Safe", "LeaseBased"}
    /\ pending_read_index = <<>>
    /\ read_index_queue = <<>>
    /\ waiting_for_ready = 0
    /\ panic = "none"
    /\ call = new_call("new", <<>>, FALSE)
    /\ rss = <<>>
    /\ acks_ret = {}
    /\ registered = <<>>
    /\ commit = 0
    /\ ack_log = no_ack
    /\ released = <<>>
    /\ dropm = <<>>
    /\ delaym = <<>>
    /\ ignorem = <<>>
    /\ filtered = <<>>
    /\ net_call = new_net_call("new", 0)
    /\ cut_off = {}

Init ==
    /\ Constructed
    /\ lhs = no_error
    /\ rhs = no_error
    /\ eq_ret = {}

\* ---------------------------------------------------------------- actions
\* ReadOnly::add_request(index, m)
add_request(index, m) ==
    /\ panic = "none"
    /\ call' = new_call("add_request", IF Len(m.entries) = 0 THEN <<>> ELSE m.entries[1].data, FALSE)
    /\ rss' = <<>>
    /\ acks_ret' = {}
    /\ UNCHANGED <<option, waiting_for_ready>>
    /\ IF Len(m.entries) = 0
       THEN /\ panic' = "index_out_of_bounds"
            /\ UNCHANGED <<pending_read_index, read_index_queue, registered>>
       ELSE LET key == m.entries[1].data
            IN /\ panic' = "none"
               /\ IF already_pending(pending_read_index, key)
                  THEN UNCHANGED <<pending_read_index, read_index_queue>>
                  ELSE /\ pending_read_index' =
                            map_insert(pending_read_index, key, new_status(index, m))
                       /\ read_index_queue' = push_back(read_index_queue, key)
               /\ registered' =
                    IF key \in outstanding(registered) THEN registered
                    ELSE Append(registered, registration(index, m))

\* ReadOnly::recv_ack(m)
recv_ack(m) ==
    /\ panic = "none"
    /\ call' = new_call("recv_ack", m.context, FALSE)
    /\ rss' = <<>>
    /\ UNCHANGED <<option, read_index_queue, waiting_for_ready, panic>>
    /\ IF ~contains_key(pending_read_index, m.context)
       THEN /\ acks_ret' = recv_ack_none(m)
            /\ UNCHANGED pending_read_index
       ELSE LET acks == stored_acks(pending_read_index[m.context].acks, m)
            IN /\ pending_read_index' =
                    [pending_read_index EXCEPT ![m.context] = with_acks(@, acks)]
               /\ acks_ret' = set_with_self(acks, m.to)
    /\ registered' = reg_ack(registered, m.context, m.from)

\* ReadOnly::advance(m, ready)
advance(m, ready) ==
    /\ panic = "none"
    /\ call' = new_call("advance", m.context, ready)
    /\ acks_ret' = {}
    /\ UNCHANGED option
    /\ LET p == position(read_index_queue, m.context)
           i == CHOOSE x \in p : TRUE
       IN IF \E k \in scanned(read_index_queue, m.context) :
                ~contains_key(pending_read_index, read_index_queue[k])
          THEN /\ panic' = "debug_assert"
               /\ rss' = <<>>
               /\ UNCHANGED <<pending_read_index, read_index_queue,
                              waiting_for_ready, registered>>
          ELSE IF p = {}
          THEN /\ rss' = <<>>
               /\ UNCHANGED <<pending_read_index, read_index_queue,
                              waiting_for_ready, panic, registered>>
          ELSE IF ~ready
          THEN /\ waiting_for_ready' = mark_waiting(waiting_for_ready, i)
               /\ rss' = <<>>
               /\ registered' =
                    reg_gate(registered,
                             {read_index_queue[k] : k \in 1..(i + 1)})
               /\ UNCHANGED <<pending_read_index, read_index_queue, panic>>
          ELSE LET st == advance_loop(drain_count(i),
                            [queue |-> read_index_queue,
                             map |-> pending_read_index,
                             rss |-> <<>>, panic |-> "none"])
               IN /\ read_index_queue' = st.queue
                  /\ pending_read_index' = st.map
                  /\ panic' = st.panic
                  /\ rss' = IF st.panic = "none" THEN st.rss ELSE <<>>
                  /\ registered' =
                        IF st.panic = "none"
                        THEN reg_without(registered, returned_ctxs(st.rss))
                        ELSE registered
                  /\ UNCHANGED waiting_for_ready

\* ReadOnly::advance_by_commit(committed)
advance_by_commit(committed) ==
    /\ panic = "none"
    /\ call' = new_call("advance_by_commit", <<>>, FALSE)
    /\ acks_ret' = {}
    /\ UNCHANGED option
    /\ IF ~(waiting_for_ready > 0)
       THEN /\ rss' = <<>>
            /\ UNCHANGED <<pending_read_index, read_index_queue,
                           waiting_for_ready, panic, registered>>
       ELSE IF waiting_for_ready > Len(read_index_queue)
       THEN \* VecDeque::split_off panics when at > len
            /\ panic' = "split_off_out_of_bounds"
            /\ rss' = <<>>
            /\ UNCHANGED <<pending_read_index, read_index_queue,
                           waiting_for_ready, registered>>
       ELSE LET remained == split_off(read_index_queue, waiting_for_ready)
                drained == drained_part(read_index_queue, waiting_for_ready)
                st == commit_loop(drained, committed,
                        [map |-> pending_read_index, rss |-> <<>>,
                         panic |-> "none"])
            IN /\ read_index_queue' = remained
               /\ waiting_for_ready' = 0
               /\ pending_read_index' = st.map
               /\ panic' = st.panic
               /\ rss' = IF st.panic = "none" THEN st.rss ELSE <<>>
               /\ registered' =
                    IF st.panic = "none"
                    THEN reg_without(registered, returned_ctxs(st.rss))
                    ELSE registered

\* last_pending_request_ctx that reads the front of the queue.
last_pending_request_ctx_front ==
    IF read_index_queue = <<>> THEN {} ELSE {read_index_queue[1]}

\* ReadOnly::last_pending_request_ctx(): Some(ctx) is {ctx}, None is {}.
last_pending_request_ctx ==
    IF read_index_queue = <<>> THEN {}
    ELSE {read_index_queue[Len(read_index_queue)]}

\* pending_read_count that leaves out the blocked entries.
pending_read_count_unblocked == Len(read_index_queue) - waiting_for_ready

\* ReadOnly::pending_read_count()
pending_read_count == Len(read_index_queue)

\* ----------------------------------------------------------- specifications
\* Any sequence of calls with any arguments; commit is not tracked.
AddRequest ==
    \E index \in Indices, m \in RequestMsgs :
        add_request(index, m)
            /\ UNCHANGED <<commit, ack_log, released, network_vars, error_vars>>
RecvAck ==
    \E m \in AckMsgs :
        recv_ack(m) /\ UNCHANGED <<commit, ack_log, released, network_vars, error_vars>>
Advance ==
    \E m \in AdvanceMsgs, ready \in BOOLEAN :
        advance(m, ready)
            /\ UNCHANGED <<commit, ack_log, released, network_vars, error_vars>>
AdvanceByCommit ==
    \E committed \in Indices :
        advance_by_commit(committed)
            /\ UNCHANGED <<commit, ack_log, released, network_vars, error_vars>>

Next == AddRequest \/ RecvAck \/ Advance \/ AdvanceByCommit

Spec == Init /\ [][Next]_vars

\* The caller supplies non-decreasing commit indices: commit is the one
\* supplied last.
AddRequestMono ==
    \E index \in Indices, m \in RequestMsgs :
        /\ index >= commit /\ add_request(index, m) /\ commit' = index
        /\ UNCHANGED <<ack_log, released, network_vars, error_vars>>
AdvanceByCommitMono ==
    \E committed \in Indices :
        /\ committed >= commit /\ advance_by_commit(committed)
        /\ commit' = committed
        /\ UNCHANGED <<ack_log, released, network_vars, error_vars>>

NextMono == AddRequestMono \/ RecvAck \/ Advance \/ AdvanceByCommitMono

SpecMono == Init /\ [][NextMono]_vars

\* The caller keeps the acknowledgment it passed last: any sequence of calls,
\* where a recv_ack call may repeat the message of the call before it.
AddRequestAck ==
    \E index \in Indices, m \in RequestMsgs :
        add_request(index, m) /\ ack_log' = no_ack
            /\ UNCHANGED <<commit, released, network_vars, error_vars>>
RecvAckAck ==
    \E m \in AckMsgs :
        recv_ack(m) /\ ack_log' = ack_logged(ack_log, m)
            /\ UNCHANGED <<commit, released, network_vars, error_vars>>
AdvanceAck ==
    \E m \in AdvanceMsgs, ready \in BOOLEAN :
        advance(m, ready) /\ ack_log' = no_ack
            /\ UNCHANGED <<commit, released, network_vars, error_vars>>
AdvanceByCommitAck ==
    \E committed \in Indices :
        advance_by_commit(committed) /\ ack_log' = no_ack
            /\ UNCHANGED <<commit, released, network_vars, error_vars>>

NextAck == AddRequestAck \/ RecvAckAck \/ AdvanceAck \/ AdvanceByCommitAck

SpecAck == Init /\ [][NextAck]_vars

\* The caller keeps the entries the drains handed to it: any sequence of
\* calls with any arguments.
AddRequestRelease ==
    \E index \in Indices, m \in RequestMsgs :
        add_request(index, m)
            /\ UNCHANGED <<commit, ack_log, released, network_vars, error_vars>>
RecvAckRelease ==
    \E m \in AckMsgs :
        recv_ack(m) /\ UNCHANGED <<commit, ack_log, released, network_vars, error_vars>>
AdvanceRelease ==
    \E m \in AdvanceMsgs, ready \in BOOLEAN :
        /\ advance(m, ready)
        /\ released' = release_logged(released, rss')
        /\ UNCHANGED <<commit, ack_log, network_vars, error_vars>>
AdvanceByCommitRelease ==
    \E committed \in Indices :
        /\ advance_by_commit(committed)
        /\ released' = release_logged(released, rss')
        /\ UNCHANGED <<commit, ack_log, network_vars, error_vars>>

NextRelease ==
    AddRequestRelease \/ RecvAckRelease \/ AdvanceRelease
        \/ AdvanceByCommitRelease

SpecRelease == Init /\ [][NextRelease]_vars

\* ------------------------------------------------- the harness test network
\* The peers of Network::new(vec![None; NumPeers]): ids 1..=peers.len().
NumPeers == 3
Peers == 1..NumPeers

\* The bound on the pairs of peers between which drop and cut may set rules
\* beside those of isolate, and on the messages of one filter call.
MaxDrops == 1
MaxBatch == 1

\* Percentages stand for the f64 rates: 0 is 0f64, 50 is 0.5, 100 is 1f64.
Percs == {0, 50, 100}

\* The values of rand::random::<f64>(), which lie in [0, 1): 0.0 and 0.5.
Rands == {0, 50}

MsgTypes == {"MsgHup", "MsgAppend"}

\* Connection { from, to }
Connection(from, to) == <<from, to>>

\* A message as filter reads it: from, to and the message type.
net_message(from, to, t) == [from |-> from, to |-> to, msg_type |-> t]

NetMsgs == {net_message(f, t, ty) : f \in Peers, t \in Peers, ty \in MsgTypes}

RECURSIVE SeqsUpTo(_, _)
SeqsUpTo(S, n) ==
    IF n = 0 THEN {<<>>}
    ELSE SeqsUpTo(S, n - 1)
            \cup {Append(q, x) : q \in {r \in SeqsUpTo(S, n - 1) : Len(r) = n - 1},
                                 x \in S}

Batches == SeqsUpTo(NetMsgs, MaxBatch)

\* HashMap::get(..).cloned().unwrap_or(default)
get_or(map, k, default) == IF contains_key(map, k) THEN map[k] ELSE default

\* self.ignorem.get(&m.get_msg_type()).cloned().unwrap_or(false)
is_ignored(ignored, m) == get_or(ignored, m.msg_type, FALSE)

\* self.dropm.get(&Connection { from: m.from, to: m.to }).cloned().unwrap_or(0f64)
drop_perc(drops, m) == get_or(drops, Connection(m.from, m.to), 0)

\* rand::random::<f64>() >= perc
passes(r, perc) == r >= perc

\* The results filter can produce for msgs: the messages it keeps, or the
\* panic of assert_ne! on a MsgHup that is not ignored.
RECURSIVE filter_results(_, _, _)
filter_results(msgs, ignored, drops) ==
    IF msgs = <<>> THEN {[out |-> <<>>, panic |-> "none"]}
    ELSE LET m == Head(msgs)
             rest == filter_results(Tail(msgs), ignored, drops)
             kept == {IF res.panic = "none"
                      THEN [res EXCEPT !.out = <<m>> \o res.out]
                      ELSE res : res \in rest}
         IN IF is_ignored(ignored, m) THEN rest
            ELSE IF m.msg_type = "MsgHup"
            THEN {[out |-> <<>>, panic |-> "unexpected msgHup"]}
            ELSE UNION {IF passes(r, drop_perc(drops, m)) THEN kept ELSE rest :
                            r \in Rands}

\* self.dropm.insert(Connection { from, to }, perc)
drop_insert(drops, from, to, perc) ==
    map_insert(drops, Connection(from, to), perc)

\* isolate_pair that cuts only the direction from id.
isolate_pair_outbound(drops, id, nid) == drop_insert(drops, id, nid, 100)

\* self.drop(id, nid, 1.0); self.drop(nid, id, 1.0);
isolate_pair(drops, id, nid) ==
    drop_insert(drop_insert(drops, id, nid, 100), nid, id, 100)

\* for i in 0..self.peers.len() { let nid = i + 1; if nid != id { .. } }
\* i is the next value of the loop variable.
RECURSIVE isolate_loop(_, _, _)
isolate_loop(i, drops, id) ==
    IF i >= NumPeers THEN drops
    ELSE LET nid == i + 1
         IN isolate_loop(i + 1,
                IF nid # id THEN isolate_pair(drops, id, nid) ELSE drops, id)

\* The connections between id and the other peers, in both directions.
links_of(id) ==
    {Connection(id, n) : n \in Peers \ {id}}
        \cup {Connection(n, id) : n \in Peers \ {id}}

\* The rules in dropm that no isolate call in force accounts for.
own_drops(drops, cut) == DOMAIN drops \ cut

\* The pairs of peers those rules lie between.
own_pairs(drops, cut) == {{c[1], c[2]} : c \in own_drops(drops, cut)}

\* Network::ignore(t)
ignore(t) ==
    /\ panic = "none"
    /\ ignorem' = map_insert(ignorem, t, TRUE)
    /\ filtered' = <<>>
    /\ net_call' = new_net_call("ignore", 0)
    /\ UNCHANGED <<dropm, delaym, cut_off, panic>>

\* Network::filter(msgs)
filter(msgs) ==
    /\ panic = "none"
    /\ \E res \in filter_results(msgs, ignorem, dropm) :
            /\ filtered' = res.out
            /\ panic' = res.panic
    /\ net_call' = new_net_call("filter", Len(msgs))
    /\ UNCHANGED <<dropm, delaym, ignorem, cut_off>>

\* Network::drop(from, to, perc)
drop(from, to, perc) ==
    /\ panic = "none"
    /\ dropm' = drop_insert(dropm, from, to, perc)
    /\ cut_off' = cut_off \ {Connection(from, to)}
    /\ filtered' = <<>>
    /\ net_call' = new_net_call("drop", 0)
    /\ UNCHANGED <<delaym, ignorem, panic>>

\* Network::delay(from, to, perc, duration)
delay(from, to, perc, duration) ==
    /\ panic = "none"
    /\ delaym' = IF duration > 0
                 THEN map_insert(delaym, Connection(from, to), <<perc, duration>>)
                 ELSE delaym
    /\ filtered' = <<>>
    /\ net_call' = new_net_call("delay", 0)
    /\ UNCHANGED <<dropm, ignorem, cut_off, panic>>

\* Network::cut(one, other)
cut(one, other) ==
    /\ panic = "none"
    /\ dropm' = drop_insert(drop_insert(dropm, one, other, 100), other, one, 100)
    /\ cut_off' = cut_off \ {Connection(one, other), Connection(other, one)}
    /\ filtered' = <<>>
    /\ net_call' = new_net_call("cut", 0)
    /\ UNCHANGED <<delaym, ignorem, panic>>

\* Network::isolate(id)
isolate(id) ==
    /\ panic = "none"
    /\ dropm' = isolate_loop(0, dropm, id)
    /\ cut_off' = cut_off \cup links_of(id)
    /\ filtered' = <<>>
    /\ net_call' = new_net_call("isolate", 0)
    /\ UNCHANGED <<delaym, ignorem, panic>>

\* Network::recover()
recover ==
    /\ panic = "none"
    /\ dropm' = <<>>
    /\ delaym' = <<>>
    /\ ignorem' = <<>>
    /\ cut_off' = {}
    /\ filtered' = <<>>
    /\ net_call' = new_net_call("recover", 0)
    /\ UNCHANGED panic

\* A test drives the network: any sequence of calls. The delays are set on
\* the connections between peers 1 and 2.
Ignore == \E t \in MsgTypes : ignore(t) /\ UNCHANGED <<read_only_vars, error_vars>>
Filter == \E msgs \in Batches : filter(msgs) /\ UNCHANGED <<read_only_vars, error_vars>>
Drop ==
    \E from \in Peers, to \in Peers, perc \in Percs :
        /\ Cardinality(own_pairs(dropm, cut_off) \cup {{from, to}}) <= MaxDrops
        /\ drop(from, to, perc)
        /\ UNCHANGED <<read_only_vars, error_vars>>
Delay ==
    \E from \in {1}, to \in {2}, perc \in {50}, duration \in {0, 1} :
        delay(from, to, perc, duration) /\ UNCHANGED <<read_only_vars, error_vars>>
Cut ==
    \E one \in Peers, other \in Peers :
        /\ Cardinality(own_pairs(dropm, cut_off) \cup {{one, other}}) <= MaxDrops
        /\ cut(one, other)
        /\ UNCHANGED <<read_only_vars, error_vars>>
Isolate == \E id \in Peers : isolate(id) /\ UNCHANGED <<read_only_vars, error_vars>>
Recover == recover /\ UNCHANGED <<read_only_vars, error_vars>>

NextNet == Ignore \/ Filter \/ Drop \/ Delay \/ Cut \/ Isolate \/ Recover

SpecNet == Init /\ [][NextNet]_vars

\* ------------------------------------------------------------ raft errors
\* io::ErrorKind, the messages of io::Error::new, and the other payloads.
ErrorKinds == {"NotFound", "UnexpectedEof"}
ErrorTexts == {"oh no!", "oh yes!"}
ConfSets == {"voters", "learners"}

\* enum StorageError
StorageErrors ==
    {[variant |-> v] : v \in {"Compacted", "Unavailable", "SnapshotOutOfDate",
                              "SnapshotTemporarilyUnavailable"}}

\* enum Error
Errors ==
    {[variant |-> "Io", kind |-> k, text |-> t] :
            k \in ErrorKinds, t \in ErrorTexts}
        \cup {[variant |-> "Store", err |-> e] : e \in StorageErrors}
        \cup {[variant |-> v] :
                v \in {"StepLocalMsg", "StepPeerNotFound", "ProposalDropped",
                       "RequestSnapshotDropped"}}
        \cup {[variant |-> "ConfigInvalid", desc |-> t] : t \in ErrorTexts}
        \cup {[variant |-> "CodecError", err |-> t] : t \in ErrorTexts}
        \cup {[variant |-> v, id |-> i, set |-> c] :
                v \in {"Exists", "NotExists"}, i \in Nodes, c \in ConfSets}

\* impl PartialEq for StorageError: one arm per variant, `_ => false`.
storage_error_eq(e1, e2) ==
    IF e1.variant = "Compacted" /\ e2.variant = "Compacted" THEN TRUE
    ELSE IF e1.variant = "Unavailable" /\ e2.variant = "Unavailable" THEN TRUE
    ELSE IF e1.variant = "SnapshotOutOfDate"
                /\ e2.variant = "SnapshotOutOfDate" THEN TRUE
    ELSE IF e1.variant = "SnapshotTemporarilyUnavailable"
                /\ e2.variant = "SnapshotTemporarilyUnavailable" THEN TRUE
    ELSE FALSE

\* impl PartialEq for Error: the seven arms of the match, `_ => false`.
error_eq(e1, e2) ==
    IF e1.variant = "StepPeerNotFound" /\ e2.variant = "StepPeerNotFound"
    THEN TRUE
    ELSE IF e1.variant = "ProposalDropped" /\ e2.variant = "ProposalDropped"
    THEN TRUE
    ELSE IF e1.variant = "Store" /\ e2.variant = "Store"
    THEN storage_error_eq(e1.err, e2.err)
    ELSE IF e1.variant = "Io" /\ e2.variant = "Io" THEN e1.kind = e2.kind
    ELSE IF e1.variant = "StepLocalMsg" /\ e2.variant = "StepLocalMsg"
    THEN TRUE
    ELSE IF e1.variant = "ConfigInvalid" /\ e2.variant = "ConfigInvalid"
    THEN e1.desc = e2.desc
    ELSE IF e1.variant = "RequestSnapshotDropped"
                /\ e2.variant = "RequestSnapshotDropped"
    THEN TRUE
    ELSE FALSE

\* Two values of Error, or two of StorageError, are at hand.
InitErr ==
    /\ Constructed
    /\ \/ lhs \in Errors /\ rhs \in Errors
       \/ lhs \in StorageErrors /\ rhs \in StorageErrors
    /\ eq_ret = {}

\* lhs == rhs on two Error values
ErrorEq ==
    /\ lhs \in Errors
    /\ eq_ret' = {error_eq(lhs, rhs)}
    /\ UNCHANGED <<read_only_vars, network_vars, panic, lhs, rhs>>

\* lhs == rhs on two StorageError values
StorageErrorEq ==
    /\ lhs \in StorageErrors
    /\ eq_ret' = {storage_error_eq(lhs, rhs)}
    /\ UNCHANGED <<read_only_vars, network_vars, panic, lhs, rhs>>

NextErr == ErrorEq \/ StorageErrorEq

SpecErr == InitErr /\ [][NextErr]_vars

\* ------------------------------------------------------------------ claims
\* The contexts of the first n queue elements.
front(n) == {read_index_queue[k] : k \in 1..n}

\* C1: with non-decreasing commit indices supplied by the caller, every
\* entry returned by advance(m, true) or advance_by_commit is an outstanding
\* registration and carries an index at least the commit index that was
\* passed to add_request when it was registered.
C1_ReleasedIndexAtLeastRegistered ==
    [][\A k \in DOMAIN rss' :
          /\ ctx_of(rss'[k]) \in outstanding(registered)
          /\ rss'[k].index >= reg_of(registered, ctx_of(rss'[k])).index]_vars

\* A commit-driven release of a request after the commit index has moved.
C1_Witness ==
    /\ call.op = "advance_by_commit"
    /\ rss # <<>>
    /\ rss[1].index = MaxIndex
    /\ commit = MaxIndex

\* C2: the queue holds a context iff the map has it as a key, no context
\* occurs twice in the queue, and the debug assertion of advance never fails.
C2_QueueMatchesMap ==
    /\ {read_index_queue[k] : k \in DOMAIN read_index_queue}
            = DOMAIN pending_read_index
    /\ \A j, k \in DOMAIN read_index_queue :
            j # k => read_index_queue[j] # read_index_queue[k]
    /\ panic # "debug_assert"

\* A drain by advance that left a later entry pending.
C2_Witness ==
    /\ call.op = "advance"
    /\ call.ready
    /\ rss # <<>>
    /\ read_index_queue # <<>>

\* C3: no call aborts when every request passed to add_request carries a
\* context: the only panic is the one of a request without entries.
C3_NoAbort == panic \in {"none", "index_out_of_bounds"}

\* C4: the blocked counter never exceeds pending_read_count().
C4_CounterWithinQueue == waiting_for_ready <= pending_read_count

\* C5: every entry advance_by_commit returns was covered, while pending, by
\* an earlier advance(m, false) call.
C5_CommitReleasesOnlyGated ==
    [][call'.op = "advance_by_commit" =>
          \A k \in DOMAIN rss' :
              /\ ctx_of(rss'[k]) \in outstanding(registered)
              /\ reg_of(registered, ctx_of(rss'[k])).gated]_vars

\* C6: advance(m, true) with m.context at queue position i returns the i+1
\* oldest pending entries in registration order, removes exactly those from
\* the queue and the map, and leaves every later entry as it was.
C6_AdvanceReadyDrainsPrefix ==
    [][\A m \in AdvanceMsgs, i \in 0..(Len(read_index_queue) - 1) :
          (read_index_queue[i + 1] = m.context /\ advance(m, TRUE)) =>
              /\ panic' = "none"
              /\ Len(rss') = i + 1
              /\ \A k \in 1..(i + 1) :
                    /\ rss'[k] = pending_read_index[read_index_queue[k]]
                    /\ ctx_of(rss'[k]) = registered[k].ctx
                    /\ rss'[k].req = registered[k].req
              /\ read_index_queue' =
                    SubSeq(read_index_queue, i + 2, Len(read_index_queue))
              /\ DOMAIN pending_read_index' =
                    DOMAIN pending_read_index \ front(i + 1)
              /\ \A t \in DOMAIN pending_read_index' :
                    pending_read_index'[t] = pending_read_index[t]]_vars

\* advance(m, true) released the older entry and left the younger pending.
C6_Witness ==
    /\ call.op = "advance"
    /\ call.ready
    /\ Len(rss) = 1
    /\ ctx_of(rss[1]) = call.ctx
    /\ Len(read_index_queue) = 1
    /\ pending_read_index[read_index_queue[1]].acks # {}

\* C7: advance(m, false) with m.context at queue position i returns an
\* empty list, leaves queue and map unchanged and sets the blocked counter
\* to max(previous counter, i+1), so the counter is never lowered.
C7_AdvanceNotReadyOnlyMarks ==
    [][\A m \in AdvanceMsgs, i \in 0..(Len(read_index_queue) - 1) :
          (read_index_queue[i + 1] = m.context /\ advance(m, FALSE)) =>
              /\ panic' = "none"
              /\ rss' = <<>>
              /\ read_index_queue' = read_index_queue
              /\ pending_read_index' = pending_read_index
              /\ waiting_for_ready' >= waiting_for_ready
              /\ waiting_for_ready' >= i + 1
              /\ waiting_for_ready' \in {waiting_for_ready, i + 1}]_vars

\* advance(m, false) at position 0 after the counter had reached 2.
C7_Witness ==
    /\ call.op = "advance"
    /\ ~call.ready
    /\ Len(read_index_queue) = 2
    /\ read_index_queue[1] = call.ctx
    /\ waiting_for_ready = 2

\* C8: advance_by_commit(c) returns the first waiting_for_ready entries of
\* the queue in order, each with index c, removes exactly those from the
\* queue and the map, resets the counter to 0 and leaves the rest unchanged.
C8_CommitDrainsBlockedPrefix ==
    [][\A c \in Indices :
          advance_by_commit(c) =>
              /\ panic' = "none"
              /\ waiting_for_ready <= Len(read_index_queue)
              /\ Len(rss') = waiting_for_ready
              /\ \A k \in 1..waiting_for_ready :
                    rss'[k] = [pending_read_index[read_index_queue[k]]
                                    EXCEPT !.index = c]
              /\ read_index_queue' =
                    SubSeq(read_index_queue, waiting_for_ready + 1,
                           Len(read_index_queue))
              /\ DOMAIN pending_read_index' =
                    DOMAIN pending_read_index \ front(waiting_for_ready)
              /\ \A t \in DOMAIN pending_read_index' :
                    pending_read_index'[t] = pending_read_index[t]
              /\ waiting_for_ready' = 0]_vars

\* C9: add_request, recv_ack and advance never lower the blocked counter;
\* it decreases only by a reset to 0 in a call that returns the entries it
\* counts, the first waiting_for_ready of the queue, together; and every
\* call that returns all the entries it counts resets it to 0.
C9_CounterResetExactlyWithDrain ==
    [][/\ call'.op \in {"add_request", "recv_ack", "advance"} =>
            waiting_for_ready' >= waiting_for_ready
       /\ waiting_for_ready' < waiting_for_ready =>
            /\ waiting_for_ready' = 0
            /\ waiting_for_ready <= Len(read_index_queue)
            /\ front(waiting_for_ready) \subseteq returned_ctxs(rss')
       /\ (/\ waiting_for_ready > 0
           /\ waiting_for_ready <= Len(read_index_queue)
           /\ front(waiting_for_ready) \subseteq returned_ctxs(rss')) =>
            waiting_for_ready' = 0]_vars

\* C10: recv_ack for a pending context inserts m.from into the stored ack
\* set and returns the stored set united with {m.to}; the returned set
\* holds m.to and every acker recorded for the registration, and the stored
\* ack set of a pending entry only grows.
C10_RecvAckAccumulates ==
    [][/\ \A m \in AckMsgs :
            (m.context \in DOMAIN pending_read_index /\ recv_ack(m)) =>
                /\ pending_read_index'[m.context].acks =
                        pending_read_index[m.context].acks \cup {m.from}
                /\ acks_ret' = pending_read_index'[m.context].acks \cup {m.to}
                /\ m.to \in acks_ret'
                /\ m.context \in outstanding(registered')
                /\ reg_of(registered', m.context).acked \subseteq acks_ret'
                /\ reg_of(registered', m.context).acked
                        = pending_read_index'[m.context].acks
       /\ \A t \in DOMAIN pending_read_index \cap DOMAIN pending_read_index' :
            pending_read_index[t].acks \subseteq pending_read_index'[t].acks]_vars

\* recv_ack returned the responder together with two recorded ackers.
C10_Witness ==
    /\ call.op = "recv_ack"
    /\ call.ctx \in DOMAIN pending_read_index
    /\ Cardinality(pending_read_index[call.ctx].acks) = 2
    /\ pending_read_index[call.ctx].acks \subseteq acks_ret

\* The contexts in the queue.
queued == {read_index_queue[k] : k \in DOMAIN read_index_queue}

\* C11: recv_ack with a context that is not pending returns the empty set
\* and changes neither the queue, the map, any ack set nor the counter.
C11_RecvAckUnknownIsNoop ==
    [][\A m \in AckMsgs :
          (m.context \notin DOMAIN pending_read_index /\ recv_ack(m)) =>
              /\ panic' = "none"
              /\ acks_ret' = {}
              /\ read_index_queue' = read_index_queue
              /\ pending_read_index' = pending_read_index
              /\ waiting_for_ready' = waiting_for_ready]_vars

\* recv_ack for a context that is not pending, beside an acked pending entry.
C11_Witness ==
    /\ call.op = "recv_ack"
    /\ call.ctx \notin DOMAIN pending_read_index
    /\ acks_ret = {}
    /\ \E t \in DOMAIN pending_read_index : pending_read_index[t].acks # {}

\* C12: recv_ack adds only m.from to the stored ack set, never m.to for
\* being the responder: the stored ack set of every pending entry, and the
\* ack set of every released entry, is exactly the set of from identities
\* acked for it.
C12_SelfAckNotPersisted ==
    [][/\ \A k \in DOMAIN registered' :
            /\ registered'[k].ctx \in DOMAIN pending_read_index'
            /\ pending_read_index'[registered'[k].ctx].acks
                    = registered'[k].acked
       /\ \A k \in DOMAIN rss' :
            /\ ctx_of(rss'[k]) \in outstanding(registered)
            /\ rss'[k].acks = reg_of(registered, ctx_of(rss'[k])).acked
       /\ \A m \in AckMsgs :
            (m.context \in DOMAIN pending_read_index /\ recv_ack(m)) =>
                pending_read_index'[m.context].acks
                    = pending_read_index[m.context].acks \cup {m.from}]_vars

\* recv_ack returned {1, 2} for an entry whose stored ack set is {2}.
C12_Witness ==
    /\ call.op = "recv_ack"
    /\ call.ctx \in DOMAIN pending_read_index
    /\ pending_read_index[call.ctx].acks = {2}
    /\ acks_ret = {1, 2}

\* C13: add_request with a context that is already pending changes nothing:
\* queue, map (request, index and ack set of the existing entry) and counter
\* stay as they were.
C13_DuplicateAddIsNoop ==
    [][\A index \in Indices, m \in RequestMsgs :
          (/\ Len(m.entries) > 0
           /\ m.entries[1].data \in DOMAIN pending_read_index
           /\ add_request(index, m)) =>
              /\ panic' = "none"
              /\ read_index_queue' = read_index_queue
              /\ pending_read_index' = pending_read_index
              /\ waiting_for_ready' = waiting_for_ready]_vars

\* add_request for the context of the older of two entries, which is acked.
C13_Witness ==
    /\ call.op = "add_request"
    /\ Len(read_index_queue) = 2
    /\ read_index_queue[1] = call.ctx
    /\ pending_read_index[call.ctx].acks # {}

\* C14: pending_read_count() is the number of distinct contexts registered
\* and not yet released, and every call lowers it by exactly the number of
\* entries it returned.
C14_PendingCountIsOutstanding ==
    [][/\ pending_read_count' = Cardinality(outstanding(registered'))
       /\ pending_read_count' = Len(registered')
       /\ call'.op \in {"advance", "advance_by_commit"} =>
            pending_read_count' = pending_read_count - Len(rss')]_vars

\* Two registrations with distinct contexts on an empty registry.
C14_Witness ==
    /\ call.op = "add_request"
    /\ pending_read_count = 2
    /\ waiting_for_ready = 0
    /\ \A t \in DOMAIN pending_read_index : pending_read_index[t].acks = {}

\* C15: last_pending_request_ctx() is the context of the most recently
\* registered request that is still pending, and None exactly when nothing
\* is pending.
C15_LastCtxIsNewestPending ==
    /\ last_pending_request_ctx =
            (IF registered = <<>> THEN {}
             ELSE {registered[Len(registered)].ctx})
    /\ (last_pending_request_ctx = {}) <=> (DOMAIN pending_read_index = {})
    /\ (last_pending_request_ctx = {}) <=> (pending_read_count = 0)

\* A drain removed every entry: last_pending_request_ctx() is None again.
C15_Witness ==
    /\ call.op \in {"advance", "advance_by_commit"}
    /\ Len(rss) = 2
    /\ last_pending_request_ctx = {}

\* C16: advance with a context that is not in the queue returns an empty
\* list and changes neither queue, map nor counter, for either ready.
C16_AdvanceUnknownIsNoop ==
    [][\A m \in AdvanceMsgs, ready \in BOOLEAN :
          (m.context \notin queued /\ advance(m, ready)) =>
              /\ panic' = "none"
              /\ rss' = <<>>
              /\ read_index_queue' = read_index_queue
              /\ pending_read_index' = pending_read_index
              /\ waiting_for_ready' = waiting_for_ready]_vars

\* advance(m, true) for a context that is not queued, beside a pending entry.
C16_Witness ==
    /\ call.op = "advance"
    /\ call.ready
    /\ rss = <<>>
    /\ call.ctx \notin queued
    /\ read_index_queue # <<>>

\* C17: an entry a drain returns was an outstanding registration, is
\* returned once, and is afterwards in neither the queue nor the map;
\* recv_ack and advance on a context without outstanding registration
\* (released, or never registered) return nothing and change nothing.
C17_ReleaseIsTerminal ==
    [][/\ \A k \in DOMAIN rss' :
            /\ ctx_of(rss'[k]) \in outstanding(registered)
            /\ rss'[k].req = reg_of(registered, ctx_of(rss'[k])).req
            /\ ctx_of(rss'[k]) \notin outstanding(registered')
            /\ ctx_of(rss'[k]) \notin queued'
            /\ ctx_of(rss'[k]) \notin DOMAIN pending_read_index'
            /\ \A j \in DOMAIN rss' : j # k => ctx_of(rss'[j]) # ctx_of(rss'[k])
       /\ \A m \in AckMsgs :
            (m.context \notin outstanding(registered) /\ recv_ack(m)) =>
                /\ acks_ret' = {}
                /\ pending_read_index' = pending_read_index
       /\ \A m \in AdvanceMsgs, ready \in BOOLEAN :
            (m.context \notin outstanding(registered) /\ advance(m, ready)) =>
                /\ rss' = <<>>
                /\ read_index_queue' = read_index_queue
                /\ pending_read_index' = pending_read_index
                /\ waiting_for_ready' = waiting_for_ready]_vars

\* advance_by_commit handed out the older entry; the younger stays pending.
C17_Witness ==
    /\ call.op = "advance_by_commit"
    /\ Len(rss) = 1
    /\ Len(read_index_queue) = 1
    /\ ctx_of(rss[1]) \notin DOMAIN pending_read_index

\* C18 as claimed: the option never changes, and a LeaseBased registry
\* never holds a request.
C18_LeaseBasedNotTracked ==
    [][/\ option' = option
       /\ option' = "LeaseBased" =>
            (read_index_queue' = <<>> /\ DOMAIN pending_read_index' = {})]_vars

\* C18 as amended: the option never changes and add_request does not
\* consult it: under either option a request with a context that is not
\* pending is appended to the queue and entered in the map.
C18_OptionFixedNotConsulted ==
    [][/\ option' = option
       /\ \A index \in Indices, m \in RequestMsgs :
            (/\ Len(m.entries) > 0
             /\ m.entries[1].data \notin DOMAIN pending_read_index
             /\ add_request(index, m)) =>
                /\ read_index_queue' =
                        Append(read_index_queue, m.entries[1].data)
                /\ DOMAIN pending_read_index' =
                        DOMAIN pending_read_index \cup {m.entries[1].data}
                /\ pending_read_index'[m.entries[1].data].req = m
                /\ pending_read_index'[m.entries[1].data].index = index]_vars

\* A LeaseBased registry that tracks the request just registered.
C18_Witness ==
    /\ option = "LeaseBased"
    /\ call.op = "add_request"
    /\ read_index_queue = <<call.ctx>>
    /\ call.ctx \in DOMAIN pending_read_index

\* C19: every drain returns the oldest outstanding registrations, in
\* registration order, and all that stay pending were registered later.
C19_ReleasedInRegistrationOrder ==
    [][/\ Len(rss') <= Len(registered)
       /\ \A k \in DOMAIN rss' :
            /\ registered[k].ctx = ctx_of(rss'[k])
            /\ registered[k].req = rss'[k].req
       /\ rss' # <<>> =>
            registered' = SubSeq(registered, Len(rss') + 1, Len(registered))]_vars

\* One advance call returned two entries.
C19_Witness ==
    /\ call.op = "advance"
    /\ call.ready
    /\ Len(rss) = 2
    /\ ctx_of(rss[2]) = call.ctx

\* C20: once advance(m, false) has set the counter, the next
\* advance_by_commit call returns every covered entry that is still
\* pending, leaves none of them in the registry and the counter at 0.
C20_GatedFlushedByNextCommit ==
    [][\A c \in Indices :
          (waiting_for_ready > 0 /\ advance_by_commit(c)) =>
              /\ panic' = "none"
              /\ \A k \in DOMAIN registered :
                    registered[k].gated =>
                        /\ \E j \in DOMAIN rss' :
                                ctx_of(rss'[j]) = registered[k].ctx
                        /\ registered[k].ctx \notin queued'
                        /\ registered[k].ctx \notin DOMAIN pending_read_index'
              /\ waiting_for_ready' = 0]_vars

\* C21: the index and the request of a pending entry never change while it
\* is pending, whatever is called: they stay the ones passed to add_request
\* when it was registered. An entry advance(m, true) returns carries that
\* index and request; an entry advance_by_commit(c) returns carries the
\* request and the index c.
C21_CapturedIndexAndRequestFixed ==
    [][/\ \A t \in DOMAIN pending_read_index \cap DOMAIN pending_read_index' :
            /\ pending_read_index'[t].index = pending_read_index[t].index
            /\ pending_read_index'[t].req = pending_read_index[t].req
       /\ \A k \in DOMAIN registered' :
            /\ registered'[k].ctx \in DOMAIN pending_read_index'
            /\ pending_read_index'[registered'[k].ctx].index
                    = registered'[k].index
            /\ pending_read_index'[registered'[k].ctx].req = registered'[k].req
       /\ \A m \in AdvanceMsgs :
            advance(m, TRUE) =>
                \A k \in DOMAIN rss' :
                    /\ ctx_of(rss'[k]) \in outstanding(registered)
                    /\ rss'[k].index
                            = reg_of(registered, ctx_of(rss'[k])).index
                    /\ rss'[k].req = reg_of(registered, ctx_of(rss'[k])).req
       /\ \A c \in Indices :
            advance_by_commit(c) =>
                \A k \in DOMAIN rss' :
                    /\ ctx_of(rss'[k]) \in outstanding(registered)
                    /\ rss'[k].index = c
                    /\ rss'[k].req = reg_of(registered, ctx_of(rss'[k])).req]_vars

\* advance(m, true) returned an entry registered with index MaxIndex that
\* was acked and covered by advance(_, false) while it was pending.
C21_Witness ==
    /\ call.op = "advance"
    /\ call.ready
    /\ Len(rss) = 1
    /\ rss[1].index = MaxIndex
    /\ rss[1].acks # {}
    /\ waiting_for_ready > 0
    /\ read_index_queue # <<>>

\* C22: recv_ack is idempotent: a recv_ack call with the message (from, to,
\* context) of the recv_ack call just before it returns the same set as that
\* call did and leaves the queue, the map with every ack set, and the
\* counter as that call left them.
C22_RecvAckIdempotent ==
    [][\A m \in AckMsgs :
          (ack_log.n >= 1 /\ ack_log.m = m /\ recv_ack(m)) =>
              /\ panic' = "none"
              /\ acks_ret' = acks_ret
              /\ pending_read_index' = pending_read_index
              /\ read_index_queue' = read_index_queue
              /\ waiting_for_ready' = waiting_for_ready]_vars

\* The same acknowledgment was passed twice in a row for a pending entry
\* that another peer had acked before; the responder is not an acker.
C22_Witness ==
    /\ ack_log.n = 2
    /\ call.op = "recv_ack"
    /\ call.ctx = ack_log.m.context
    /\ call.ctx \in DOMAIN pending_read_index
    /\ pending_read_index[call.ctx].acks = {ack_log.m.from}
    /\ ack_log.m.to # ack_log.m.from
    /\ acks_ret = {ack_log.m.from, ack_log.m.to}

\* C23: add_request with a context whose earlier registration was returned
\* by a drain, and which is not pending, registers it again: the context is
\* appended at the tail of the queue and entered in the map with the request
\* and index just passed and an empty ack set, whatever ack set the earlier
\* registration was returned with; every other entry and the counter stay.
C23_ReleasedTokenRegistersAfresh ==
    [][\A index \in Indices, m \in RequestMsgs :
          (/\ Len(m.entries) > 0
           /\ m.entries[1].data \in DOMAIN released
           /\ m.entries[1].data \notin DOMAIN pending_read_index
           /\ add_request(index, m)) =>
              /\ panic' = "none"
              /\ Len(read_index_queue') = Len(read_index_queue) + 1
              /\ \A k \in DOMAIN read_index_queue :
                    read_index_queue'[k] = read_index_queue[k]
              /\ read_index_queue'[Len(read_index_queue')] = m.entries[1].data
              /\ DOMAIN pending_read_index' =
                    DOMAIN pending_read_index \cup {m.entries[1].data}
              /\ pending_read_index'[m.entries[1].data].req = m
              /\ pending_read_index'[m.entries[1].data].index = index
              /\ pending_read_index'[m.entries[1].data].acks = {}
              /\ \A t \in DOMAIN pending_read_index :
                    pending_read_index'[t] = pending_read_index[t]
              /\ waiting_for_ready' = waiting_for_ready]_vars

\* A context returned earlier with a non-empty ack set is pending again,
\* behind an older entry, with index MaxIndex and no acks.
C23_Witness ==
    /\ call.op = "add_request"
    /\ call.ctx \in DOMAIN released
    /\ released[call.ctx]
    /\ Len(read_index_queue) = 2
    /\ read_index_queue[2] = call.ctx
    /\ pending_read_index[call.ctx].index = MaxIndex
    /\ pending_read_index[call.ctx].acks = {}

\* The messages of a list on a connection of the set, and the list without
\* them.
on_links(msgs, links) ==
    {k \in DOMAIN msgs : Connection(msgs[k].from, msgs[k].to) \in links}

RECURSIVE without_links(_, _)
without_links(msgs, links) ==
    IF msgs = <<>> THEN <<>>
    ELSE IF Connection(Head(msgs).from, Head(msgs).to) \in links
    THEN without_links(Tail(msgs), links)
    ELSE <<Head(msgs)>> \o without_links(Tail(msgs), links)

no_hup(msgs) == \A k \in DOMAIN msgs : msgs[k].msg_type # "MsgHup"

\* C24: while a connection between an isolated peer and another peer is cut
\* (isolate(id) was called and neither recover() nor a drop() for that
\* connection since), filter returns no message on it, in either direction.
\* isolate(id) sets the rule of exactly the connections between id and the
\* other peers and leaves every other drop, delay and ignore rule as it was:
\* when the isolations are the only rules, filter returns the messages on
\* all other connections, in order. recover() empties the drop, delay and
\* ignore rules, and a filter call right after it returns every message.
C24_IsolationCutsBothWays ==
    [][/\ \A msgs \in Batches :
            filter(msgs) =>
                /\ \A k \in DOMAIN filtered' :
                        Connection(filtered'[k].from, filtered'[k].to)
                            \notin cut_off
                /\ (ignorem = <<>> /\ DOMAIN dropm = cut_off /\ no_hup(msgs)) =>
                        /\ panic' = "none"
                        /\ filtered' = without_links(msgs, cut_off)
                /\ (net_call.op = "recover" /\ no_hup(msgs)) =>
                        /\ panic' = "none"
                        /\ filtered' = msgs
       /\ \A id \in Peers :
            isolate(id) =>
                /\ \A n \in Peers \ {id} :
                        /\ Connection(id, n) \in DOMAIN dropm'
                        /\ Connection(n, id) \in DOMAIN dropm'
                        /\ dropm'[Connection(id, n)] = 100
                        /\ dropm'[Connection(n, id)] = 100
                /\ \A a \in Peers \ {id}, b \in Peers \ {id} :
                        /\ Connection(a, b) \in DOMAIN dropm'
                                <=> Connection(a, b) \in DOMAIN dropm
                        /\ Connection(a, b) \in DOMAIN dropm =>
                                dropm'[Connection(a, b)] = dropm[Connection(a, b)]
                /\ delaym' = delaym
                /\ ignorem' = ignorem
       /\ recover =>
            /\ DOMAIN dropm' = {}
            /\ DOMAIN delaym' = {}
            /\ DOMAIN ignorem' = {}]_vars

\* With peer 1 isolated and no other rule, filter dropped a message towards
\* peer 1.
C24_Witness ==
    /\ net_call = new_net_call("filter", 1)
    /\ filtered = <<>>
    /\ panic = "none"
    /\ cut_off = links_of(1)
    /\ DOMAIN dropm = cut_off
    /\ ignorem = <<>>
    /\ delaym # <<>>

\* Same variant and equal payload, where two Io errors have equal payload
\* when their kinds are equal.
same_variant_and_payload(e1, e2) ==
    IF e1.variant = "Io" /\ e2.variant = "Io" THEN e1.kind = e2.kind
    ELSE e1 = e2

\* C25: == on two Error values, and on two StorageError values, returns true
\* exactly when they are the same variant with equal payload (Io errors by
\* kind only); every value equals itself.
C25_EqualityByVariantAndPayload ==
    /\ eq_ret # {} => eq_ret = {same_variant_and_payload(lhs, rhs)}
    /\ (eq_ret # {} /\ lhs = rhs) => eq_ret = {TRUE}

====
